---- MODULE Spec2Model ----
(***************************************************************************)
(* Model of data-processing/image_processor.py: the command-line entry     *)
(* point and convert_tiff_to_heightmap (mask no-data, nan-statistics,      *)
(* degenerate check, linear scaling to uint8, save).                       *)
(*                                                                         *)
(* float32 values are modelled as records: k is "fin", "nan", "pinf" or    *)
(* "ninf"; a finite value is the exact rational n/d in lowest terms.  The  *)
(* finite inputs are small integers, for which the float32 operations of   *)
(* the program are exact (or round to the same truncated result).  The 2-D *)
(* band is modelled as its row-major sequence of cells.                    *)
(***************************************************************************)
EXTENDS Integers, Sequences, FiniteSets, TLC

VARIABLES pc, argc, grid, nodata, data, stats, reported, scaled, events, exitCode

vars == <<pc, argc, grid, nodata, data, stats, reported, scaled, events, exitCode>>

----------------------------------------------------------------------------
(* Bounds of the model *)
MaxArgc == 3
MaxCells == 3
MaxVal == 4
Big == 300000

(* Program constants *)
MinArgv == 3
MidGray == 128
ScaleFactor == 255
Uint8Mod == 256
TolDen == 100000000
AtolNum == 1
RtolNum == 1000
UsageExit == 1
ErrorExit == 1

----------------------------------------------------------------------------
(* float32 values *)
NaN == [k |-> "nan", n |-> 0, d |-> 1]
PosInf == [k |-> "pinf", n |-> 0, d |-> 1]
NegInf == [k |-> "ninf", n |-> 0, d |-> 1]
Raise == [k |-> "raise", n |-> 0, d |-> 1]
None == [k |-> "none", n |-> 0, d |-> 1]

Abs(i) == IF i < 0 THEN -i ELSE i

RECURSIVE GCD(_, _)
GCD(a, b) == IF b = 0 THEN a ELSE GCD(b, a % b)

Fin(n, d) ==
  LET g == GCD(Abs(n), Abs(d))
      s == IF d < 0 THEN -1 ELSE 1
  IN [k |-> "fin", n |-> (s * n) \div g, d |-> (s * d) \div g]

F(i) == [k |-> "fin", n |-> i, d |-> 1]

IsNan(x) == x.k = "nan"
IsFinite(x) == x.k = "fin"
IsInf(x) == x.k \in {"pinf", "ninf"}

(* sign of a non-NaN value, a zero counting as positive *)
Sgn(x) == IF x.k = "pinf" THEN 1
          ELSE IF x.k = "ninf" THEN -1
          ELSE IF x.n < 0 THEN -1 ELSE 1

Signed(s) == IF s < 0 THEN NegInf ELSE PosInf

(* IEEE comparisons: false whenever an operand is NaN *)
FEq(a, b) == ~IsNan(a) /\ ~IsNan(b) /\ a = b

FLe(a, b) ==
  IF IsNan(a) \/ IsNan(b) THEN FALSE
  ELSE IF a.k = "ninf" \/ b.k = "pinf" THEN TRUE
  ELSE IF a.k = "pinf" \/ b.k = "ninf" THEN FALSE
  ELSE IF a.d = 1 THEN a.n <= b.n \div b.d
  ELSE IF b.d = 1 THEN -((-a.n) \div a.d) <= b.n
  ELSE a.n * b.d <= b.n * a.d

FLt(a, b) == FLe(a, b) /\ a # b

FNeg(a) == IF a.k = "pinf" THEN NegInf
           ELSE IF a.k = "ninf" THEN PosInf
           ELSE IF a.k = "fin" THEN [a EXCEPT !.n = -a.n]
           ELSE a

FAbs(a) == IF IsNan(a) THEN a ELSE IF Sgn(a) < 0 THEN FNeg(a) ELSE a

FAdd(a, b) ==
  IF IsNan(a) \/ IsNan(b) THEN NaN
  ELSE IF IsInf(a) /\ IsInf(b) THEN (IF a = b THEN a ELSE NaN)
  ELSE IF IsInf(a) THEN a
  ELSE IF IsInf(b) THEN b
  ELSE LET g == GCD(a.d, b.d)
           l == (a.d \div g) * b.d
       IN Fin(a.n * (l \div a.d) + b.n * (l \div b.d), l)

FSub(a, b) == FAdd(a, FNeg(b))

FMul(a, b) ==
  IF IsNan(a) \/ IsNan(b) THEN NaN
  ELSE IF IsInf(a) \/ IsInf(b)
       THEN (IF (IsFinite(a) /\ a.n = 0) \/ (IsFinite(b) /\ b.n = 0)
             THEN NaN ELSE Signed(Sgn(a) * Sgn(b)))
  ELSE Fin(a.n * b.n, a.d * b.d)

FDiv(a, b) ==
  IF IsNan(a) \/ IsNan(b) THEN NaN
  ELSE IF IsInf(a) THEN (IF IsInf(b) THEN NaN ELSE Signed(Sgn(a) * Sgn(b)))
  ELSE IF IsInf(b) THEN F(0)
  ELSE IF b.n = 0 THEN (IF a.n = 0 THEN NaN ELSE Signed(Sgn(a)))
  ELSE Fin(a.n * b.d, a.d * b.n)

(* the symbolic square root of a value (np.sqrt) *)
FSqrt(x) == [sqrtOf |-> x]

----------------------------------------------------------------------------
(* numpy operations used by convert_tiff_to_heightmap *)

(* np.where(data == nodata_val, np.nan, data), skipped when nodata is None *)
MaskNoData_unmasked(d, nd) == d
MaskNoData(d, nd) ==
  IF nd = None THEN d
  ELSE [i \in 1..Len(d) |-> IF FEq(d[i], nd) THEN NaN ELSE d[i]]

(* np.fmin / np.fmax: a NaN operand is ignored *)
FMinIgn(a, b) == IF IsNan(a) THEN b ELSE IF IsNan(b) THEN a
                 ELSE IF FLt(b, a) THEN b ELSE a
FMaxIgn(a, b) == IF IsNan(a) THEN b ELSE IF IsNan(b) THEN a
                 ELSE IF FLt(a, b) THEN b ELSE a

RECURSIVE ReduceFMin(_)
ReduceFMin(d) == IF d = <<>> THEN NaN ELSE FMinIgn(Head(d), ReduceFMin(Tail(d)))

RECURSIVE ReduceFMax(_)
ReduceFMax(d) == IF d = <<>> THEN NaN ELSE FMaxIgn(Head(d), ReduceFMax(Tail(d)))

NotNan(x) == ~IsNan(x)

(* a reduction that raises on an empty selection, as data[valid].min() does *)
NanMin_raising(d) ==
  IF SelectSeq(d, NotNan) = <<>> THEN Raise ELSE ReduceFMin(d)
(* np.nanmin: NaN (and a warning) when every cell is NaN *)
NanMin(d) == ReduceFMin(d)
NanMax(d) == ReduceFMax(d)

RECURSIVE SumSeq(_)
SumSeq(d) == IF d = <<>> THEN F(0) ELSE FAdd(Head(d), SumSeq(Tail(d)))

(* _replace_nan(a, 0) *)
ZeroNan(d) == [i \in 1..Len(d) |-> IF IsNan(d[i]) THEN F(0) ELSE d[i]]
CountNotNan(d) == Len(SelectSeq(d, NotNan))

(* np.nanmean: sum of the non-NaN cells over their count; 0/0 = NaN *)
NanMean(d) == FDiv(SumSeq(ZeroNan(d)), F(CountNotNan(d)))

(* np.nanvar with ddof = 0 *)
NanVar(d) ==
  LET avg == NanMean(d)
      dev == [i \in 1..Len(d) |->
                IF IsNan(d[i]) THEN F(0) ELSE FSub(d[i], avg)]
      sqr == [i \in 1..Len(d) |-> FMul(dev[i], dev[i])]
  IN FDiv(SumSeq(sqr), F(CountNotNan(d)))

NanStd(d) == FSqrt(NanVar(d))

(* np.isclose(a, b) with the default rtol = 1e-5, atol = 1e-8 *)
IsClose_equalNan(a, b) ==
  IF IsNan(a) \/ IsNan(b) THEN IsNan(a) /\ IsNan(b)
  ELSE IF IsFinite(a) /\ IsFinite(b)
       THEN FLe(FAbs(FSub(a, b)),
                FAdd(Fin(AtolNum, TolDen), FMul(Fin(RtolNum, TolDen), FAbs(b))))
  ELSE a = b
IsClose(a, b) ==
  IF IsNan(a) \/ IsNan(b) THEN FALSE
  ELSE IF IsFinite(a) /\ IsFinite(b)
       THEN FLe(FAbs(FSub(a, b)),
                FAdd(Fin(AtolNum, TolDen), FMul(Fin(RtolNum, TolDen), FAbs(b))))
  ELSE a = b

(* np.clip(x, lo, hi) = minimum(maximum(x, lo), hi); NaN propagates *)
Clip(x, lo, hi) ==
  IF IsNan(x) THEN x
  ELSE IF FLt(x, lo) THEN lo
  ELSE IF FLt(hi, x) THEN hi
  ELSE x

(* np.nan_to_num(x, nan=0.0, posinf=1.0, neginf=0.0) *)
NanToNum(x) == IF x.k = "nan" THEN F(0)
               ELSE IF x.k = "pinf" THEN F(1)
               ELSE IF x.k = "ninf" THEN F(0)
               ELSE x

(* float to integer: truncation toward zero *)
Trunc_nearest(x) == (2 * x.n + x.d) \div (2 * x.d)
Trunc(x) == IF x.n >= 0 THEN x.n \div x.d ELSE -((-x.n) \div x.d)

(* .astype(np.uint8) of a finite value *)
AsUint8_signed(x) ==
  CASE x.k = "fin" -> ((Trunc(x) + 128) % Uint8Mod) - 128
AsUint8(x) ==
  CASE x.k = "fin" -> Trunc(x) % Uint8Mod

(* np.full_like(data, 128, dtype=np.uint8) *)
FullLike_validOnly(d, v) ==
  [i \in 1..Len(d) |-> IF IsNan(d[i]) THEN 0 ELSE AsUint8(F(v))]
FullLike(d, v) == [i \in 1..Len(d) |-> AsUint8(F(v))]

(* a scaling that divides by the maximum instead of the range *)
ScaleCell_noOffset(x, mn, mx) ==
  LET q == FDiv(FSub(x, mn), mx)
      c == Clip(q, F(0), F(1))
      z == NanToNum(c)
  IN AsUint8(FMul(z, F(ScaleFactor)))
(* lines 50-59 for one cell *)
ScaleCell(x, mn, mx) ==
  LET q == FDiv(FSub(x, mn), FSub(mx, mn))
      c == Clip(q, F(0), F(1))
      z == NanToNum(c)
  IN AsUint8(FMul(z, F(ScaleFactor)))

LinearScaled(d, mn, mx) == [i \in 1..Len(d) |-> ScaleCell(d[i], mn, mx)]

(* the guard of the command-line entry point: len(sys.argv) < 3 *)
UsageError_offByOne(n) == n < MinArgv - 1
UsageError(n) == n < MinArgv

----------------------------------------------------------------------------
(* Inputs: the band and the no-data value the raster file holds *)
SmallVals == {NaN, PosInf, NegInf} \cup {F(i) : i \in 1..MaxVal}
NearVals == {F(Big), F(Big + 1), F(Big + 4)}

SeqsUpTo(S, n) == UNION {[1..m -> S] : m \in 1..n}

Scenarios == { <<F(1), F(2), F(3), F(4)>>,
               <<F(5), F(5), F(5), F(5)>>,
               <<F(1), F(-9999), F(3), F(4)>> }

Grids == SeqsUpTo(SmallVals, MaxCells) \cup SeqsUpTo(NearVals, 2) \cup Scenarios

Sentinels == {None, F(-9999), F(1), NaN}

NoStats == [min |-> None, max |-> None, mean |-> None, std |-> FSqrt(None)]
NoReport == [min |-> None, max |-> None, mean |-> None, std |-> FSqrt(None),
             range |-> None]

----------------------------------------------------------------------------
Init ==
  /\ pc = "main"
  /\ argc \in 1..MaxArgc
  /\ grid = <<>>
  /\ nodata = None
  /\ data = <<>>
  /\ stats = NoStats
  /\ reported = NoReport
  /\ scaled = <<>>
  /\ events = <<>>
  /\ exitCode = <<>>

(* lines 69-78: the usage check, then the call of convert_tiff_to_heightmap *)
Main ==
  /\ pc = "main"
  /\ IF UsageError(argc)
     THEN /\ events' = Append(events, "usage")
          /\ exitCode' = <<UsageExit>>
          /\ pc' = "exited"
     ELSE IF argc < MinArgv
     THEN (* sys.argv[2] raises IndexError *)
          /\ events' = events
          /\ exitCode' = <<ErrorExit>>
          /\ pc' = "error"
     ELSE /\ events' = events
          /\ exitCode' = exitCode
          /\ pc' = "open"
  /\ UNCHANGED <<argc, grid, nodata, data, stats, reported, scaled>>

(* lines 16-21: rasterio.open, src.read(1).astype(float32), src.nodata *)
OpenRead ==
  /\ pc = "open"
  /\ \E g \in Grids, nd \in Sentinels :
       /\ grid' = g
       /\ nodata' = nd
       /\ data' = g
  /\ events' = Append(events, "open")
  /\ pc' = "mask"
  /\ UNCHANGED <<argc, stats, reported, scaled, exitCode>>

(* rasterio.open or read raises: the error propagates *)
OpenFails ==
  /\ pc = "open"
  /\ events' = Append(events, "open")
  /\ exitCode' = <<ErrorExit>>
  /\ pc' = "error"
  /\ UNCHANGED <<argc, grid, nodata, data, stats, reported, scaled>>

(* lines 24-25 *)
Mask ==
  /\ pc = "mask"
  /\ data' = MaskNoData(data, nodata)
  /\ pc' = "stats"
  /\ UNCHANGED <<argc, grid, nodata, stats, reported, scaled, events, exitCode>>

(* lines 28-31 *)
ComputeStats ==
  /\ pc = "stats"
  /\ LET mn == NanMin(data)
         mx == NanMax(data)
         mean == NanMean(data)
         sd == NanStd(data)
     IN IF Raise \in {mn, mx, mean}
        THEN /\ stats' = stats
             /\ exitCode' = <<ErrorExit>>
             /\ pc' = "error"
        ELSE /\ stats' = [min |-> mn, max |-> mx, mean |-> mean, std |-> sd]
             /\ exitCode' = exitCode
             /\ pc' = "print"
  /\ UNCHANGED <<argc, grid, nodata, data, reported, scaled, events>>

(* lines 34-40 *)
PrintStats ==
  /\ pc = "print"
  /\ reported' = [min |-> stats.min, max |-> stats.max, mean |-> stats.mean,
                  std |-> stats.std, range |-> FSub(stats.max, stats.min)]
  /\ events' = Append(events, "stats")
  /\ pc' = "check"
  /\ UNCHANGED <<argc, grid, nodata, data, stats, scaled, exitCode>>

(* lines 43-46 *)
DegenerateFill ==
  /\ pc = "check"
  /\ IsClose(stats.min, stats.max)
  /\ scaled' = FullLike(data, MidGray)
  /\ events' = events \o <<"warning", "grid">>
  /\ pc' = "image"
  /\ UNCHANGED <<argc, grid, nodata, data, stats, reported, exitCode>>

(* lines 47-59 *)
LinearScale ==
  /\ pc = "check"
  /\ ~IsClose(stats.min, stats.max)
  /\ scaled' = LinearScaled(data, stats.min, stats.max)
  /\ events' = Append(events, "grid")
  /\ pc' = "image"
  /\ UNCHANGED <<argc, grid, nodata, data, stats, reported, exitCode>>

(* lines 63-66 *)
SaveImage ==
  /\ pc = "image"
  /\ events' = Append(events, "write")
  /\ pc' = "saved"
  /\ UNCHANGED <<argc, grid, nodata, data, stats, reported, scaled, exitCode>>

(* img.save raises: the error propagates *)
SaveFails ==
  /\ pc = "image"
  /\ exitCode' = <<ErrorExit>>
  /\ pc' = "error"
  /\ UNCHANGED <<argc, grid, nodata, data, stats, reported, scaled, events>>

(* a confirmation printed before the image is saved *)
PrintSaved_early ==
  /\ pc = "image"
  /\ events' = events \o <<"confirm", "write">>
  /\ exitCode' = <<0>>
  /\ pc' = "done"
  /\ UNCHANGED <<argc, grid, nodata, data, stats, reported, scaled>>
(* line 67, then the normal end of the process *)
PrintSaved ==
  /\ pc = "saved"
  /\ events' = Append(events, "confirm")
  /\ exitCode' = <<0>>
  /\ pc' = "done"
  /\ UNCHANGED <<argc, grid, nodata, data, stats, reported, scaled>>

Next ==
  \/ Main
  \/ OpenRead
  \/ OpenFails
  \/ Mask
  \/ ComputeStats
  \/ PrintStats
  \/ DegenerateFill
  \/ LinearScale
  \/ SaveImage
  \/ SaveFails
  \/ PrintSaved

Spec == Init /\ [][Next]_vars

----------------------------------------------------------------------------
(* Vocabulary of the properties *)

Produced == pc \in {"image", "saved", "done"}
Printed == pc \in {"check", "image", "saved", "done"}
LinearPath == Produced /\ ~IsClose(stats.min, stats.max)

(* a cell is valid when it does not equal the no-data value *)
ValidCell(x) == nodata = None \/ ~FEq(x, nodata)
ValidNotNan(x) == ValidCell(x) /\ ~IsNan(x)
ValidAt(i) == ValidCell(grid[i])

Cells == 1..Len(grid)

(* plain (not NaN-aware) statistics of a list of values *)
RECURSIVE RefMin(_)
RefMin(s) ==
  IF s = <<>> THEN NaN
  ELSE IF Len(s) = 1 THEN s[1]
  ELSE LET m == RefMin(Tail(s))
       IN IF IsNan(s[1]) \/ IsNan(m) THEN NaN
          ELSE IF FLe(s[1], m) THEN s[1] ELSE m

RECURSIVE RefMax(_)
RefMax(s) ==
  IF s = <<>> THEN NaN
  ELSE IF Len(s) = 1 THEN s[1]
  ELSE LET m == RefMax(Tail(s))
       IN IF IsNan(s[1]) \/ IsNan(m) THEN NaN
          ELSE IF FLe(m, s[1]) THEN s[1] ELSE m

RefMean(s) == FDiv(SumSeq(s), F(Len(s)))

RefStd(s) ==
  LET m == RefMean(s)
      sq == [i \in 1..Len(s) |-> FMul(FSub(s[i], m), FSub(s[i], m))]
  IN FSqrt(FDiv(SumSeq(sq), F(Len(s))))

RefReport(s) ==
  [min |-> RefMin(s), max |-> RefMax(s), mean |-> RefMean(s),
   std |-> RefStd(s), range |-> FSub(RefMax(s), RefMin(s))]

IsPrefix(s, t) == Len(s) <= Len(t) /\ \A i \in 1..Len(s) : s[i] = t[i]

----------------------------------------------------------------------------
(* C1: every cell of the produced intensity grid lies in 0..255, on the    *)
(* flat path and on the linear-scaling path, for every input grid and      *)
(* no-data value; the grid has as many cells as the input.                 *)
C1_RangeContainment ==
  Produced => /\ Len(scaled) = Len(grid)
              /\ \A i \in Cells : scaled[i] \in 0..255

C1_Witness ==
  /\ pc = "done"
  /\ LinearPath
  /\ \E i \in Cells : grid[i] = NaN
  /\ \E i \in Cells : scaled[i] = 0 /\ ValidAt(i) /\ ~IsNan(grid[i])
  /\ \E i \in Cells : scaled[i] = 255

(* C2 as stated: if all valid cells are pairwise close, every output cell  *)
(* is 128.                                                                 *)
C2_Original ==
  Produced =>
    ((\A i, j \in Cells : (ValidAt(i) /\ ValidAt(j)) => IsClose(grid[i], grid[j]))
       => \A i \in Cells : scaled[i] = MidGray)

(* C2 amended: if there is at least one valid cell and all valid cells are *)
(* pairwise close, every output cell, valid or invalid, is 128.            *)
C2_DegenerateFlat ==
  Produced =>
    (( /\ \E i \in Cells : ValidAt(i)
       /\ \A i, j \in Cells :
            (ValidAt(i) /\ ValidAt(j)) => IsClose(grid[i], grid[j]) )
       => \A i \in Cells : scaled[i] = MidGray)

C2_Witness ==
  /\ pc = "done"
  /\ \E i \in Cells : ~ValidAt(i)
  /\ \E i \in Cells : ValidAt(i)
  /\ \A i, j \in Cells : (ValidAt(i) /\ ValidAt(j)) => IsClose(grid[i], grid[j])
  /\ \A i \in Cells : scaled[i] = MidGray

(* C3 as stated: every valid cell attaining the minimum maps to 0 and      *)
(* every valid cell attaining the maximum maps to 255.                     *)
C3_Original ==
  Produced =>
    \A i \in Cells :
      ValidAt(i) => /\ FEq(grid[i], stats.min) => scaled[i] = 0
                    /\ FEq(grid[i], stats.max) => scaled[i] = 255

(* C3 amended: on the linear-scaling path with a finite minimum and a      *)
(* finite maximum, the cells attaining the minimum map to 0 and the cells  *)
(* attaining the maximum map to 255.                                       *)
C3_BoundaryMapping ==
  (LinearPath /\ IsFinite(stats.min) /\ IsFinite(stats.max)) =>
    \A i \in Cells :
      ValidAt(i) => /\ FEq(grid[i], stats.min) => scaled[i] = 0
                    /\ FEq(grid[i], stats.max) => scaled[i] = 255

C3_Witness ==
  /\ pc = "done"
  /\ LinearPath
  /\ IsFinite(stats.min) /\ IsFinite(stats.max)
  /\ \E i \in Cells : ~ValidAt(i)
  /\ \E i \in Cells : ValidAt(i) /\ FEq(grid[i], stats.min) /\ scaled[i] = 0
  /\ \E i \in Cells : ValidAt(i) /\ FEq(grid[i], stats.max) /\ scaled[i] = 255

(* C4 as stated: the reported statistics are the plain minimum, maximum,   *)
(* mean, population standard deviation and range of exactly the cells that *)
(* do not equal the no-data value.                                         *)
C4_Original ==
  Printed => reported = RefReport(SelectSeq(grid, ValidCell))

(* C4 amended: the reported statistics are those of exactly the cells that *)
(* neither equal the no-data value nor are NaN; the other cells contribute *)
(* nothing, wherever and however many they are.                            *)
C4_ValidOnlyStatistics ==
  Printed => reported = RefReport(SelectSeq(grid, ValidNotNan))

C4_Witness ==
  /\ pc = "done"
  /\ \E i \in Cells : ~ValidAt(i)
  /\ \E i \in Cells : ValidAt(i) /\ IsNan(grid[i])
  /\ Len(SelectSeq(grid, ValidNotNan)) >= 1
  /\ IsFinite(reported.mean)

(* C5: on the linear-scaling path, two valid cells a, b with               *)
(* value(a) < value(b) have output(a) <= output(b).                        *)
C5_Monotonic ==
  LinearPath =>
    \A a, b \in Cells :
      (ValidAt(a) /\ ValidAt(b) /\ FLt(grid[a], grid[b])) => scaled[a] <= scaled[b]

C5_Witness ==
  /\ pc = "done"
  /\ LinearPath
  /\ \E a, b \in Cells :
       ValidAt(a) /\ ValidAt(b) /\ FLt(grid[a], grid[b]) /\ scaled[a] < scaled[b]

(* C6: once a non-empty grid has been read, no step of the normalization   *)
(* (masking, statistics, degenerate check, scaling) ends in an error: a    *)
(* run that holds a grid and stops in error has its statistics and its     *)
(* intensity grid (it failed at the save).                                 *)
C6_Totality ==
  /\ (pc = "error" /\ grid # <<>>) =>
        (stats # NoStats /\ Len(scaled) = Len(grid))
  /\ Produced => (stats # NoStats /\ Len(scaled) = Len(grid))

C6_Witness ==
  /\ pc = "image"
  /\ stats # NoStats
  /\ Len(scaled) = Len(grid)
  /\ \A i \in Cells : IsNan(data[i])
  /\ \E i \in Cells : ~ValidAt(i)
  /\ \E i \in Cells : IsNan(grid[i])

(* C7 as stated: on the linear-scaling path a valid finite cell v maps to  *)
(* the truncation of 255 * clip((v - min) / (max - min), 0, 1), a number,  *)
(* and an invalid cell maps to 0.                                          *)
C7_Original ==
  LinearPath =>
    \A i \in Cells :
      IF ~ValidAt(i) THEN scaled[i] = 0
      ELSE IsFinite(grid[i]) =>
             LET q == FDiv(FSub(grid[i], stats.min), FSub(stats.max, stats.min))
             IN /\ ~IsNan(q)
                /\ scaled[i] = Trunc(FMul(F(255), Clip(q, F(0), F(1))))

(* C7 amended: on the linear-scaling path a valid finite cell v maps to    *)
(* floor(255 * (v - min) / (max - min)) when minimum and maximum are       *)
(* finite; every other cell (invalid, NaN or infinite, or any cell when    *)
(* the minimum or maximum is infinite) maps to 0; the grid keeps all its   *)
(* cells; the two worked examples come out as stated.                      *)
C7_LinearScaling ==
  /\ LinearPath =>
       /\ Len(scaled) = Len(grid)
       /\ \A i \in Cells :
            scaled[i] =
              IF ValidAt(i) /\ IsFinite(grid[i])
                 /\ IsFinite(stats.min) /\ IsFinite(stats.max)
              THEN (255 * (grid[i].n - stats.min.n)) \div (stats.max.n - stats.min.n)
              ELSE 0
  /\ (Produced /\ grid = <<F(1), F(2), F(3), F(4)>> /\ nodata = None)
       => scaled = <<0, 85, 170, 255>>
  /\ (Produced /\ grid = <<F(1), F(-9999), F(3), F(4)>> /\ nodata = F(-9999))
       => scaled = <<0, 0, 170, 255>>

C7_Witness ==
  /\ pc = "done"
  /\ LinearPath
  /\ \E i \in Cells : ~ValidAt(i) /\ scaled[i] = 0
  /\ \E i \in Cells : ValidAt(i) /\ scaled[i] = 127

(* C8: with fewer than two positional arguments the run prints the usage   *)
(* message and exits with a non-zero status; no file is opened or written, *)
(* no statistics are printed and the conversion is never entered.          *)
C8_UsageOnly ==
  (argc - 1 < 2) =>
    \/ pc = "main" /\ events = <<>> /\ exitCode = <<>>
    \/ /\ pc = "exited"
       /\ events = <<"usage">>
       /\ Len(exitCode) = 1 /\ exitCode[1] # 0
       /\ grid = <<>> /\ scaled = <<>> /\ reported = NoReport /\ stats = NoStats

C8_Witness == pc = "exited" /\ argc = 2 /\ events = <<"usage">> /\ exitCode = <<1>>

(* C9: the events of a conversion occur in the order: statistics block;    *)
(* the warning, exactly when minimum is close to maximum; the intensity    *)
(* grid; the image write; the confirmation, which appears only at the      *)
(* successful end, after the write.                                        *)
ExpectedEvents ==
  <<"open", "stats">>
    \o (IF IsClose(stats.min, stats.max) THEN <<"warning">> ELSE <<>>)
    \o <<"grid", "write", "confirm">>

C9_EventOrder ==
  (argc - 1 >= 2) =>
    /\ IsPrefix(events, ExpectedEvents)
    /\ Printed => Len(events) >= 2
    /\ Produced => Len(events) >= Len(ExpectedEvents) - 2
    /\ (pc = "done") <=> (events = ExpectedEvents)
    /\ (pc = "done") => exitCode = <<0>>
    /\ (pc = "error") => (Len(exitCode) = 1 /\ exitCode[1] # 0)

C9_Witness ==
  /\ pc = "done"
  /\ events = <<"open", "stats", "warning", "grid", "write", "confirm">>

(* C10 as stated: with zero valid cells the statistics are NaN, the        *)
(* degenerate branch is taken, the warning is emitted and every output     *)
(* cell is 128.                                                            *)
C10_Original ==
  (Produced /\ nodata # None /\ \A i \in Cells : FEq(grid[i], nodata)) =>
    /\ reported.min = NaN /\ reported.max = NaN /\ reported.mean = NaN
    /\ \E k \in 1..Len(events) : events[k] = "warning"
    /\ \A i \in Cells : scaled[i] = MidGray

(* C10 amended: with zero valid cells the statistics are NaN and reported  *)
(* as such; the degenerate branch is not taken (NaN is not close to NaN),  *)
(* no warning is emitted and every output cell is 0.                       *)
C10_ZeroValidCells ==
  (Produced /\ nodata # None /\ \A i \in Cells : FEq(grid[i], nodata)) =>
    /\ reported.min = NaN /\ reported.max = NaN /\ reported.mean = NaN
    /\ reported.std = FSqrt(NaN) /\ reported.range = NaN
    /\ \A k \in 1..Len(events) : events[k] # "warning"
    /\ \A i \in Cells : scaled[i] = 0

C10_Witness ==
  /\ pc = "done"
  /\ nodata # None
  /\ Len(grid) >= 2
  /\ \A i \in Cells : FEq(grid[i], nodata)
  /\ \A i \in Cells : scaled[i] = 0

====
